---- MODULE Spec2Model ----
(***************************************************************************)
(* IdleLoops Predictor (src/idleloops-predictor.user.js): the forward      *)
(* simulation of an action list, Predictor.update / predict / tick and     *)
(* Prediction.updateTicks / ticks / exp.                                   *)
(*                                                                         *)
(* Number conventions.  JavaScript doubles are modelled in fixed point:    *)
(*   - stat experience is counted in units of 1/ExpScale;                  *)
(*   - loop progress and segment costs are counted in units of             *)
(*     1/ProgScale of 5000 game units (every cost of the catalogue is a    *)
(*     multiple of 5000), and the host's skill levels are given in the     *)
(*     same unit;                                                          *)
(*   - a resource field is a tagged JavaScript value (number, NaN,         *)
(*     undefined, boolean), so that a read of a missing field is visible.  *)
(***************************************************************************)
EXTENDS Integers, Sequences, FiniteSets, TLC

\* ------------------------------------------------------------------ bounds
\* Longest action list handed to update.
MaxLen == 2
\* Largest repeat count ("loops") of a listed action.
MaxLoops == 2

\* ------------------------------------------------------- fixed-point scales
ExpScale == 6
ProgScale == 1000
WeightDen == 2

\* --------------------------------------------------------- JavaScript values
Num(n) == [t |-> "num", n |-> n]
NaN == [t |-> "nan", n |-> 0]
Undefined == [t |-> "undef", n |-> 0]
True == [t |-> "bool", n |-> 1]

\* ToNumber: undefined -> NaN, true -> 1.
ToNumber(v) ==
  IF v.t = "undef" THEN NaN ELSE IF v.t = "bool" THEN Num(v.n) ELSE v

IsNumber(v) == v.t = "num"

JsAdd(a, b) ==
  LET x == ToNumber(a)
      y == ToNumber(b)
  IN IF x.t = "nan" \/ y.t = "nan" THEN NaN ELSE Num(x.n + y.n)

JsSub(a, b) ==
  LET x == ToNumber(a)
      y == ToNumber(b)
  IN IF x.t = "nan" \/ y.t = "nan" THEN NaN ELSE Num(x.n - y.n)

JsMul(a, b) ==
  LET x == ToNumber(a)
      y == ToNumber(b)
  IN IF x.t = "nan" \/ y.t = "nan" THEN NaN ELSE Num(x.n * y.n)

\* v >= 0 (false for NaN and undefined).
JsGe0(v) == LET x == ToNumber(v) IN x.t = "num" /\ x.n >= 0

\* v < 0 (false for NaN and undefined).
JsLt0(v) == LET x == ToNumber(v) IN x.t = "num" /\ x.n < 0

Truthy(v) == (v.t = "num" /\ v.n # 0) \/ (v.t = "bool" /\ v.n = 1)

\* (v || 0)
OrZero(v) == IF Truthy(v) THEN v ELSE Num(0)

\* --------------------------------------------------- host page (the globals)
\* Koviko.globals.statList
statList == <<"Str", "Int">>

StatNames == {statList[k] : k \in 1..Len(statList)}

\* Experience at which the host's getLevelFromExp steps up.
LevelExp == 8

\* Koviko.globals.getLevelFromExp: a step function of the accumulated
\* experience (given in 1/ExpScale), coarse so that tick counts stay exact.
getLevelFromExp(exp) == IF exp >= LevelExp * ExpScale THEN 100 ELSE 0

\* Koviko.globals.getTotalBonusXP(stat)
getTotalBonusXP(i) == 1

\* The skill levels of the host page's character, in units of 5000; they
\* belong to the page and do not change during a pass.
VARIABLE host

\* A character far into the game: its ticks cross segments at once.
SkillCombat == 600
SkillMagic == 400

\* A character at the start of the game: a segment costs many runs.
NoviceCombat == 1
NoviceMagic == 0

VeteranSkills == [Combat |-> SkillCombat, Magic |-> SkillMagic]
NoviceSkills == [Combat |-> NoviceCombat, Magic |-> NoviceMagic]

\* Koviko.globals.getSkillLevel(skill)
getSkillLevel(skill) ==
  CASE skill = "Combat" -> host.Combat
    [] skill = "Magic" -> host.Magic
    [] OTHER -> 0

\* Koviko.globals.getCraftGuildRank().bonus and getAdvGuildRank().bonus
CraftGuildBonus == 2
AdvGuildBonus == 2

\* Koviko.globals.dungeons[dungeonNum]: the floors of the one dungeon.
dungeons == << [ssChance |-> 1, completed |-> 0], [ssChance |-> 1, completed |-> 0] >>

\* Koviko.globals.towns[townNum]['total' + varName]: loops ever completed.
HistAdvGuild == 0
HistLDungeon == 3
HistTournament == 5

townsTotal(name) ==
  CASE name = "Adventure Guild" -> HistAdvGuild
    [] name = "Large Dungeon" -> HistLDungeon
    [] name = "Tournament" -> HistTournament
    [] OTHER -> 0

\* Koviko.globals.precision3(1.2^n) * 100, n = 0..41
P3Pow12 == <<100, 120, 144, 173, 207, 249, 299, 358, 430, 516, 619, 743, 892,
  1070, 1280, 1540, 1850, 2220, 2660, 3190, 3830, 4600, 5520, 6620, 7950,
  9540, 11400, 13700, 16500, 19800, 23700, 28500, 34200, 41000, 49200,
  59100, 70900, 85100, 102000, 122000, 147000, 176000>>

\* Koviko.globals.precision3(1.1^n) * 100, n = 0..79
P3Pow11 == <<100, 110, 121, 133, 146, 161, 177, 195, 214, 236, 259, 285, 314,
  345, 380, 418, 459, 505, 556, 612, 673, 740, 814, 895, 985, 1080, 1190,
  1310, 1440, 1590, 1740, 1920, 2110, 2320, 2550, 2810, 3090, 3400, 3740,
  4110, 4530, 4980, 5480, 6020, 6630, 7290, 8020, 8820, 9700, 10700, 11700,
  12900, 14200, 15600, 17200, 18900, 20800, 22900, 25200, 27700, 30400,
  33500, 36800, 40500, 44600, 49000, 53900, 59300, 65300, 71800, 79000,
  86900, 95600, 105000, 116000, 127000, 140000, 154000, 169000, 186000>>

\* Koviko.globals.precision3(3^k * 5e5) / 5000, k = 0..9
P3Pow3 == <<100, 300, 900, 2700, 8100, 24400, 72800, 218000, 656000, 1968000>>

\* Mana costs the host's actions answer to manaCost().
CostSmall == 4
CostMedium == 8
CostSmashPots == 50
CostWildMana == 252

\* Koviko.globals.translateClassNames(name): the host's action object.
\* stats holds the stat weights as numerators over WeightDen.
translateClassNames(name) ==
  CASE name = "Smash Pots" ->
         [stats |-> [i \in {} |-> 0], expMult |-> 1,
          manaCost |-> CostSmashPots, segments |-> 0, loopStats |-> <<>>]
    [] name = "Buy Glasses" ->
         [stats |-> [i \in {"Str", "Int"} |-> 1], expMult |-> 1,
          manaCost |-> CostSmall, segments |-> 0, loopStats |-> <<>>]
    [] name = "Buy Mana" ->
         [stats |-> [i \in {"Int"} |-> 2], expMult |-> 1,
          manaCost |-> CostSmall, segments |-> 0, loopStats |-> <<>>]
    [] name = "Wild Mana" ->
         [stats |-> [i \in {"Str"} |-> 2], expMult |-> 1,
          manaCost |-> CostWildMana, segments |-> 0, loopStats |-> <<>>]
    [] name = "Adventure Guild" ->
         [stats |-> [i \in {"Str", "Int"} |-> 1], expMult |-> 1,
          manaCost |-> CostMedium, segments |-> 2, loopStats |-> <<"Str", "Int">>]
    [] name = "Large Dungeon" ->
         [stats |-> [i \in {"Str", "Int"} |-> 1], expMult |-> 1,
          manaCost |-> CostSmall, segments |-> 2, loopStats |-> <<"Int", "Str">>]
    [] name = "Tournament" ->
         [stats |-> [i \in {"Str", "Int"} |-> 1], expMult |-> 1,
          manaCost |-> CostMedium, segments |-> 2, loopStats |-> <<"Str", "Int">>]

\* Names an action list may hold; "Nap" has no prediction.
ListNames == {"Nap", "Smash Pots", "Buy Glasses", "Buy Mana",
              "Wild Mana", "Adventure Guild", "Large Dungeon", "Tournament"}

\* ------------------------------------------- initPredictions: the catalogue
\* Keys of the predictions table.
PredictionNames == {"Smash Pots", "Buy Glasses", "Buy Mana",
                    "Wild Mana", "Adventure Guild", "Large Dungeon", "Tournament"}

LoopNames == {"Adventure Guild", "Large Dungeon", "Tournament"}

\* Every field an effect of the catalogue reads or writes.
ResourceNames == {"mana", "gold", "glasses", "soul", "tourney", "armor", "team"}

\* params.affected || []
affectedOf(name) ==
  CASE name = "Smash Pots" -> {"mana"}
    [] name = "Buy Mana" -> {"mana", "gold"}
    [] name = "Wild Mana" -> {"mana"}
    [] name = "Adventure Guild" -> {"gold"}
    [] name = "Large Dungeon" -> {"soul"}
    [] name = "Tournament" -> {"gold"}
    [] OTHER -> {}

\* params.effect || null
hasEffect(name) == name \in {"Smash Pots", "Buy Glasses", "Buy Mana", "Wild Mana"}

\* Tournament's segment effect: r.tourney = (r.tourney || 0) + 1,
\* r.gold += 40 + Math.floor(r.tourney / 3 + .00001) * 20
tournamentSegment(r) ==
  LET t == JsAdd(OrZero(r["tourney"]), Num(1))
      r1 == [r EXCEPT !["tourney"] = t]
  IN [r1 EXCEPT !["gold"] = JsAdd(@, Num(40 + (t.n \div 3) * 20))]

\* Top-level effects whose Buy Mana adds the mana and keeps the gold
effectKeepsGold(name, r) ==
  CASE name = "Smash Pots" -> [r EXCEPT !["mana"] = JsAdd(@, Num(100))]
    [] name = "Buy Glasses" ->
         [r EXCEPT !["gold"] = JsSub(@, Num(10)), !["glasses"] = True]
    [] name = "Buy Mana" ->
         [r EXCEPT !["mana"] = JsAdd(@, JsMul(r["gold"], Num(50)))]
    [] name = "Wild Mana" -> [r EXCEPT !["mana"] = JsAdd(@, Num(250))]
    [] OTHER -> r

\* prediction.effect(r): the top-level effect of the action
effect(name, r) ==
  CASE name = "Smash Pots" -> [r EXCEPT !["mana"] = JsAdd(@, Num(100))]
    [] name = "Buy Glasses" ->
         [r EXCEPT !["gold"] = JsSub(@, Num(10)), !["glasses"] = True]
    [] name = "Buy Mana" ->
         [r EXCEPT !["mana"] = JsAdd(@, JsMul(r["gold"], Num(50))),
                   !["gold"] = Num(0)]
    [] name = "Wild Mana" -> [r EXCEPT !["mana"] = JsAdd(@, Num(250))]
    [] OTHER -> r

\* params.loop || null
hasLoop(name) == name \in LoopNames

\* prediction.loop.max is defined
hasMax(name) == name \in {"Large Dungeon", "Tournament"}

\* prediction.loop.max(a)
loopMax(name) ==
  CASE name = "Large Dungeon" -> Len(dungeons)
    [] name = "Tournament" -> 6
    [] OTHER -> 0

\* prediction.loop.effect.loop / .segment are defined
hasLoopEffect(name) == name = "Large Dungeon"
hasSegmentEffect(name) == name \in {"Adventure Guild", "Tournament"}

\* prediction.loop.effect.loop(r)
loopEffect(name, r) ==
  CASE name = "Large Dungeon" -> [r EXCEPT !["soul"] = JsAdd(@, Num(1))]
    [] OTHER -> r

\* prediction.loop.effect.segment(r)
segmentEffect(name, r) ==
  CASE name = "Adventure Guild" -> [r EXCEPT !["mana"] = JsAdd(@, Num(200))]
    [] name = "Tournament" -> tournamentSegment(r)
    [] OTHER -> r

\* prediction.loop.cost(p, a)(segment), in 1/ProgScale
loopCost(name, p, segment) ==
  LET a == translateClassNames(name)
  IN CASE name = "Adventure Guild" ->
            P3Pow12[p.completed + segment + 1] * 10 * ProgScale
       [] name = "Tournament" ->
            P3Pow11[p.completed + segment + 1] * 10 * ProgScale
       [] name = "Large Dungeon" ->
            P3Pow3[((p.completed + segment) \div a.segments) + 1] * ProgScale

\* floor(1000 * sqrt(n / 1000000)), searched upward from r
RECURSIVE SqrtUp(_, _)
SqrtUp(n, r) == IF (r + 1) * (r + 1) <= n THEN SqrtUp(n, r + 1) ELSE r

\* Math.sqrt(1 + x / d) in thousandths
SqrtMilli(x, d) == SqrtUp(((d + x) * 1000000) \div d, 1000)

\* g.getSkillLevel('Combat') * (1 + ((r.armor || 0) * g.getCraftGuildRank().bonus) / 5)
selfCombat(r) ==
  (getSkillLevel("Combat") * (5 + ToNumber(OrZero(r["armor"])).n * CraftGuildBonus)) \div 5

\* selfCombat + g.getSkillLevel('Combat') * (r.team || 0) / 2 * g.getAdvGuildRank().bonus
teamCombat(r) ==
  selfCombat(r)
    + (getSkillLevel("Combat") * ToNumber(OrZero(r["team"])).n * AdvGuildBonus) \div 2

\* 100 + g.getLevelFromExp(s[a.loopStats[(p.completed + offset) % a.loopStats.length]])
loopStatFactor(a, p, s, offset) ==
  100 + getLevelFromExp(s[a.loopStats[((p.completed + offset) % Len(a.loopStats)) + 1]])

\* prediction.loop.tick(p, a, s, r)(offset), in 1/ProgScale
loopTick(name, p, s, r, offset) ==
  LET a == translateClassNames(name)
  IN CASE name = "Adventure Guild" ->
            ((getSkillLevel("Magic") \div 2 + selfCombat(r))
               * loopStatFactor(a, p, s, offset) * SqrtMilli(p.total, 1000)) \div 100
       [] name = "Tournament" ->
            ((getSkillLevel("Magic") + selfCombat(r))
               * loopStatFactor(a, p, s, offset) * SqrtMilli(p.total, 1000)) \div 100
       [] name = "Large Dungeon" ->
            LET floor == p.completed \div a.segments
            IN IF ~(floor + 1 \in DOMAIN dungeons) THEN 0
               ELSE ((teamCombat(r) + getSkillLevel("Magic"))
                       * loopStatFactor(a, p, s, offset)
                       * SqrtMilli(dungeons[floor + 1].completed, 200)) \div 100

\* ------------------------------------------------------------ Prediction
\* The sum of updateTicks as a fraction num/den: each stat of statList that
\* the action weighs and the table holds adds weight / (1 + level / 100).
RECURSIVE statCost(_, _, _)
statCost(a, s, k) ==
  IF k > Len(statList) THEN [num |-> 0, den |-> 1]
  ELSE LET i == statList[k]
           rest == statCost(a, s, k + 1)
       IN IF i \in DOMAIN a.stats /\ i \in DOMAIN s
          THEN LET d == WeightDen * (100 + getLevelFromExp(s[i]))
               IN [num |-> rest.num * d + a.stats[i] * 100 * rest.den,
                   den |-> rest.den * d]
          ELSE rest

\* Math.ceil(num / den - .000001), for a fraction whose denominator is far
\* below 10^6: the epsilon only matters at an exact integer.
ceilEps(num, den) == IF num % den = 0 THEN num \div den ELSE (num \div den) + 1

\* Prediction.updateTicks(a, s): the value stored in _ticks and returned
updateTicks(a, s) ==
  LET cost == statCost(a, s, 1)
  IN ceilEps(a.manaCost * cost.num, cost.den)

\* A memoising updateTicks: a value already cached is kept
storedTicksKeepsCache(cached, fresh) == IF cached # 0 THEN cached ELSE fresh

\* this._ticks = Math.ceil(...): what _ticks holds after updateTicks, given
\* what it held before (cached) and the value just computed (fresh)
storedTicks(cached, fresh) == fresh

\* Prediction.ticks(): this._ticks || this.updateTicks().  A cached 0 is
\* falsy, and updateTicks() without arguments reads a.stats of undefined:
\* the call raises a TypeError.
ticksRaises(cached) == cached = 0

\* Prediction.exp(a, s) from the k-th stat of statList on, with ticks() = t > 0:
\* i in a.stats && i in s && (s[i] += a.stats[i] * a.expMult
\*    * (a.manaCost() / this.ticks()) * getTotalBonusXP(i))
RECURSIVE expFrom(_, _, _, _)
expFrom(a, s, t, k) ==
  IF k > Len(statList) THEN s
  ELSE LET i == statList[k]
       IN IF i \in DOMAIN a.stats /\ i \in DOMAIN s
          THEN expFrom(a, [s EXCEPT ![i] = @ + (a.stats[i] * a.expMult * a.manaCost
                                                  * getTotalBonusXP(i) * ExpScale)
                                                 \div (WeightDen * t)],
                       t, k + 1)
          ELSE expFrom(a, s, t, k + 1)

\* An exp that does not share the run's experience among the ticks
expWhole(a, s, t) == expFrom(a, s, 1, 1)

\* An exp that takes the tick's experience away instead of adding it
expLoses(a, s, t) == [x \in DOMAIN s |-> s[x] - (expFrom(a, s, t, 1)[x] - s[x])]

\* Prediction.exp(a, s): one tick's experience
exp(a, s, t) == expFrom(a, s, t, 1)

\* The parts a loop definition may carry (Koviko.Prediction~Loop): cost,
\* tick and effect are required, max is optional.
LoopParts == {"cost", "tick", "effect", "max"}

\* No loop in the parameters
NoLoop == [given |-> FALSE, parts |-> {}]

\* Parameter objects the constructor may be handed, by what they define:
\* affected, effect, and loop with the parts it carries
Parameters ==
  [affected : BOOLEAN, effect : BOOLEAN,
   loop : {NoLoop} \cup [given : {TRUE}, parts : SUBSET LoopParts]]

\* new Prediction(name, params): this.affected = params.affected || [],
\* this.effect = params.effect || null, this.loop = params.loop || null.
\* Nothing is looked at inside params.loop and nothing is thrown.
construct(params) ==
  [affected |-> params.affected, effect |-> params.effect, loop |-> params.loop]

\* The part whose absence makes a tick of prediction raise a TypeError,
\* "none" when the tick returns: loop.cost is called first, then loop.tick;
\* loop.effect is dereferenced only once the tick completes a segment
\* (crosses).  loop.max is tested before it is called.
missingInTick(prediction, crosses) ==
  IF ~prediction.loop.given THEN "none"
  ELSE IF "cost" \notin prediction.loop.parts THEN "cost"
  ELSE IF "tick" \notin prediction.loop.parts THEN "tick"
  ELSE IF crosses /\ "effect" \notin prediction.loop.parts THEN "effect"
  ELSE "none"

\* ------------------------------------------------------- Predictor.tick
\* What a tick or a run reports besides the state it leaves:
\*   neg        resources.mana was seen negative after a step,
\*   segs/loops segment and loop effects applied,
\*   gain       mana added by loop and segment effects,
\*   walk       steps taken by the walks before and after the ticks,
\*   over       after a tick progression.progress was at or above the cost
\*              of the segment the tick ended in,
\*   beyond     after a tick progression.progress was at or above the summed
\*              cost of the segments of the loop,
\*   kept       a tick completed a loop and left progression.progress
\*              other than 0,
\*   added      the progress the ticks added (additionalProgress), summed,
\*   idle       a tick added no progress (additionalProgress was 0).
NoMeter == [neg |-> FALSE, segs |-> 0, loops |-> 0, gain |-> 0, walk |-> 0,
            over |-> FALSE, beyond |-> FALSE, kept |-> FALSE, added |-> 0,
            idle |-> FALSE]

\* for (; progress >= loopCost(segment); progress -= loopCost(segment++));
RECURSIVE preWalk(_, _, _, _)
preWalk(name, p, progress, segment) ==
  IF progress >= loopCost(name, p, segment)
  THEN preWalk(name, p, progress - loopCost(name, p, segment), segment + 1)
  ELSE [progress |-> progress, segment |-> segment]

\* segment < maxSegments, maxSegments being loop.max(a) * a.segments or Infinity
belowMax(name, segment) ==
  ~hasMax(name) \/ segment < loopMax(name) * translateClassNames(name).segments

\* The loop completion without progression.total++
completeLoopWithoutTotal(p, totalSegments) ==
  [p EXCEPT !.progress = 0, !.completed = @ + totalSegments]

\* A loop completion that leaves progression.progress as it was
completeLoopKeepsProgress(p, totalSegments) ==
  [p EXCEPT !.completed = @ + totalSegments, !.total = @ + 1]

\* The loop completion inside the walk: progression after a finished loop
completeLoop(p, totalSegments) ==
  [p EXCEPT !.progress = 0, !.completed = @ + totalSegments, !.total = @ + 1]

\* for (; progress >= loopCost(segment) && segment < maxSegments;
\*        progress -= loopCost(segment++)) { ... }
RECURSIVE postWalk(_, _, _, _, _, _)
postWalk(name, p, r, progress, segment, m) ==
  LET totalSegments == translateClassNames(name).segments
  IN IF progress >= loopCost(name, p, segment) /\ belowMax(name, segment)
     THEN LET done == segment >= totalSegments - 1
              p1 == IF done THEN completeLoop(p, totalSegments) ELSE p
              seg1 == IF done THEN segment - totalSegments ELSE segment
              r1 == IF done /\ hasLoopEffect(name) THEN loopEffect(name, r) ELSE r
              r2 == IF hasSegmentEffect(name) THEN segmentEffect(name, r1) ELSE r1
              m1 == [neg |-> m.neg \/ JsLt0(r1["mana"]) \/ JsLt0(r2["mana"]),
                     segs |-> m.segs + (IF hasSegmentEffect(name) THEN 1 ELSE 0),
                     loops |-> m.loops + (IF done /\ hasLoopEffect(name) THEN 1 ELSE 0),
                     gain |-> m.gain + JsSub(r2["mana"], r["mana"]).n,
                     walk |-> m.walk + 1,
                     over |-> m.over, beyond |-> m.beyond, kept |-> m.kept,
                     added |-> m.added, idle |-> m.idle]
          IN postWalk(name, p1, r2, progress - loopCost(name, p1, seg1), seg1 + 1, m1)
     ELSE [p |-> p, r |-> r, progress |-> progress, segment |-> segment, m |-> m]

\* Predictor.tick(prediction, state) with prediction.ticks() = t > 0:
\* the state it leaves and cont, its return value as a boolean
tick(name, st, t) ==
  LET a == translateClassNames(name)
      stats1 == exp(a, st.stats, t)
  IN IF hasLoop(name)
     THEN LET p == st.progress[name]
              pre == preWalk(name, p, p.progress, 0)
              additionalProgress ==
                (loopTick(name, p, stats1, st.resources, pre.segment) * a.manaCost) \div t
              p1 == [p EXCEPT !.progress = @ + additionalProgress]
              post == postWalk(name, p1, st.resources,
                               pre.progress + additionalProgress, pre.segment, NoMeter)
          IN [state |-> [resources |-> post.r, stats |-> stats1,
                         progress |-> [st.progress EXCEPT ![name] = post.p]],
              cont |-> additionalProgress # 0 /\ belowMax(name, post.segment),
              m |-> [post.m EXCEPT
                       !.walk = @ + pre.segment,
                       !.over = post.p.progress >= loopCost(name, post.p, post.segment),
                       !.beyond = preWalk(name, post.p, post.p.progress, 0).segment
                                    >= a.segments,
                       !.kept = post.p.completed # p.completed
                                  /\ post.p.progress # 0,
                       !.added = additionalProgress,
                       !.idle = additionalProgress = 0]]
     ELSE [state |-> [st EXCEPT !.stats = stats1], cont |-> TRUE, m |-> NoMeter]

\* ---------------------------------------------------- Predictor.predict
\* state.resources.mana--
decrementMana(st) == [st EXCEPT !.resources["mana"] = JsSub(@, Num(1))]

\* A break on the tick's answer taken the other way round
breaksOnTruthy(cont) == cont

\* if (!this.tick(prediction, state)) break;
breaksOn(cont) == ~cont

\* The run after one more iteration: the tick tk followed the decrement,
\* after which mana was negative or not (neg).
afterTick(run, neg, tk) ==
  [state |-> tk.state,
   decrements |-> run.decrements + 1,
   stopped |-> breaksOn(tk.cont),
   m |-> [neg |-> run.m.neg \/ neg \/ tk.m.neg,
          segs |-> run.m.segs + tk.m.segs,
          loops |-> run.m.loops + tk.m.loops,
          gain |-> run.m.gain + tk.m.gain,
          walk |-> run.m.walk + tk.m.walk,
          over |-> run.m.over \/ tk.m.over,
          beyond |-> run.m.beyond \/ tk.m.beyond,
          kept |-> run.m.kept \/ tk.m.kept,
          added |-> run.m.added + tk.m.added,
          idle |-> run.m.idle \/ tk.m.idle]]

\* A tick that takes its share from a count made from the stats of the moment
tickAfterDecrementRecounts(name, t, run, st1) ==
  afterTick(run, JsLt0(st1.resources["mana"]),
            tick(name, st1, updateTicks(translateClassNames(name), st1.stats)))

\* if (!this.tick(prediction, state)) break;  on the state st1 that
\* state.resources.mana-- left
tickAfterDecrement(name, t, run, st1) ==
  afterTick(run, JsLt0(st1.resources["mana"]), tick(name, st1, t))

\* The iteration of a loop that also ends once mana is below zero
iterationWhileMana(name, t, run) ==
  IF run.stopped \/ run.decrements >= t \/ JsLt0(run.state.resources["mana"])
  THEN run
  ELSE tickAfterDecrement(name, t, run, decrementMana(run.state))

\* One iteration of for (let ticks = 0; ticks < prediction.ticks(); ticks++)
\* on run = {state, decrements, stopped, m}; nothing once the loop has ended
\* (the counter reached t, or a tick answered falsy and the loop broke).
iteration(name, t, run) ==
  IF run.stopped \/ run.decrements >= t
  THEN run
  ELSE tickAfterDecrement(name, t, run, decrementMana(run.state))

\* n iterations in sequence, halved so that the evaluation stays shallow
RECURSIVE iterations(_, _, _, _)
RECURSIVE iterationsAfter(_, _, _, _)
iterationsAfter(name, t, first, n) ==
  IF first.stopped THEN first ELSE iterations(name, t, first, n)

iterations(name, t, run, n) ==
  IF n = 0 THEN run
  ELSE IF n = 1 THEN iteration(name, t, run)
  ELSE iterationsAfter(name, t, iterations(name, t, run, n \div 2), n - (n \div 2))

\* The loop under the condition ticks <= prediction.ticks()
predictLoopOneMore(name, st, t) ==
  iterations(name, t + 1,
             [state |-> st, decrements |-> 0, stopped |-> FALSE, m |-> NoMeter], t + 1)

\* for (let ticks = 0; ticks < prediction.ticks(); ticks++) { ... }
predictLoop(name, st, t) ==
  iterations(name, t, [state |-> st, decrements |-> 0, stopped |-> FALSE, m |-> NoMeter], t)

\* predict once updateTicks has stored t in _ticks: the loop condition
\* raises, or the loop runs
predictWith(name, st, t) ==
  IF ticksRaises(t)
  THEN [raised |-> TRUE, t |-> t, state |-> st, decrements |-> 0,
        stopped |-> FALSE, m |-> NoMeter]
  ELSE [raised |-> FALSE, t |-> t] @@ predictLoop(name, st, t)

\* Predictor.predict(prediction, state) on a Prediction whose _ticks holds
\* cached: _ticks after updateTicks, whether the loop condition raised, and
\* otherwise the run
predictCached(name, st, cached) ==
  predictWith(name, st,
              storedTicks(cached, updateTicks(translateClassNames(name), st.stats)))

\* Predictor.predict(prediction, state) on a Prediction fresh from its
\* constructor (this._ticks = 0)
predict(name, st) == predictCached(name, st, 0)

\* ----------------------------------------------------- Predictor.update
InitialMana == 250

\* The action lists update may be handed: entries {name, loops}.
ListedAction == [name : ListNames, loops : 0..MaxLoops]
ActionLists == UNION {[1..n -> ListedAction] : n \in 0..MaxLen}

\* const affected = Object.keys(actions.reduce(...)): the affected resources
\* of the listed actions that have a prediction
affected(list) ==
  UNION {affectedOf(list[k].name) :
           k \in {j \in 1..Len(list) : list[j].name \in PredictionNames}}

\* No Progression record under this name in state.progress yet.
NoProgression == [present |-> FALSE, progress |-> 0, completed |-> 0, total |-> 0]

\* resources: {mana: 250}
seededResources ==
  [x \in ResourceNames |-> IF x = "mana" THEN Num(InitialMana) ELSE Undefined]

\* const state = {resources: {mana: 250}, stats: {...: 0}, progress: {}},
\* then affected.forEach(x => state.resources[x] || (state.resources[x] = 0))
initialState(list) ==
  [resources |-> [x \in ResourceNames |->
                    IF x \in affected(list) /\ ~Truthy(seededResources[x])
                    THEN Num(0) ELSE seededResources[x]],
   stats |-> [s \in StatNames |-> 0],
   progress |-> [n \in LoopNames |-> NoProgression]]

\* let isValid = true, at the start of every entry that has a prediction
entryValid == TRUE

\* A seeding that does not look whether the loop is already represented
ensureProgressionAnew(name, progress) ==
  IF hasLoop(name)
  THEN [progress EXCEPT ![name] = [present |-> TRUE, progress |-> 0, completed |-> 0,
                                   total |-> townsTotal(name)]]
  ELSE progress

\* state.progress[name] = {progress: 0, completed: 0, total: towns[...]}
\* unless the loop is already represented
ensureProgression(name, progress) ==
  IF hasLoop(name) /\ ~progress[name].present
  THEN [progress EXCEPT ![name] = [present |-> TRUE, progress |-> 0, completed |-> 0,
                                   total |-> townsTotal(name)]]
  ELSE progress

\* The check without the accumulation: isValid = state.resources.mana >= 0
validAfterLatest(valid, resources) == JsGe0(resources["mana"])

\* The check joined the wrong way: isValid = isValid || mana >= 0
validAfterEither(valid, resources) == valid \/ JsGe0(resources["mana"])

\* isValid = isValid && state.resources.mana >= 0
validAfter(valid, resources) == valid /\ JsGe0(resources["mana"])

\* The total assigned instead of accumulated: total = currentMana - mana
totalAfterAssigned(tot, currentMana, resources) ==
  JsSub(currentMana, resources["mana"])

\* total += currentMana - state.resources.mana
totalAfter(tot, currentMana, resources) ==
  JsAdd(tot, JsSub(currentMana, resources["mana"]))

\* An effect step that applies the top-level effect twice
applyEffectTwice(name, resources) ==
  IF hasEffect(name) THEN effect(name, effect(name, resources)) ELSE resources

\* if (prediction.effect) prediction.effect(state.resources)
applyEffect(name, resources) ==
  IF hasEffect(name) THEN effect(name, resources) ELSE resources

\* template(resources, isValid): the cells of the affected resources
template(list, resources, valid) ==
  [valid |-> valid, cells |-> [x \in affected(list) |-> resources[x]]]

\* The body of the for loop with the validity check made after the effect
afterPredictChecksLate(name, at, res) ==
  IF res.raised
  THEN [raised |-> TRUE, t |-> res.t, state |-> at.state, valid |-> at.valid,
        total |-> at.total, decrements |-> 0, stopped |-> FALSE, m |-> NoMeter,
        loopNeg |-> FALSE, effectNeg |-> FALSE, loopRes |-> at.state.resources]
  ELSE [raised |-> FALSE, t |-> res.t,
        state |-> [res.state EXCEPT !.resources = applyEffect(name, @)],
        valid |-> validAfter(at.valid, applyEffect(name, res.state.resources)),
        total |-> totalAfter(at.total, at.state.resources["mana"], res.state.resources),
        decrements |-> res.decrements, stopped |-> res.stopped, m |-> res.m,
        loopNeg |-> JsLt0(res.state.resources["mana"]),
        effectNeg |-> JsLt0(applyEffect(name, res.state.resources)["mana"]),
        loopRes |-> res.state.resources]

\* The body of the for loop after this.predict(prediction, state) answered
\* res: the validity check, the total, then the top-level effect.  at holds
\* {state, valid, total}; report tells what the run did.
afterPredict(name, at, res) ==
  IF res.raised
  THEN [raised |-> TRUE, t |-> res.t, state |-> at.state, valid |-> at.valid,
        total |-> at.total, decrements |-> 0, stopped |-> FALSE, m |-> NoMeter,
        loopNeg |-> FALSE, effectNeg |-> FALSE, loopRes |-> at.state.resources]
  ELSE [raised |-> FALSE, t |-> res.t,
        state |-> [res.state EXCEPT !.resources = applyEffect(name, @)],
        valid |-> validAfter(at.valid, res.state.resources),
        total |-> totalAfter(at.total, at.state.resources["mana"], res.state.resources),
        decrements |-> res.decrements, stopped |-> res.stopped, m |-> res.m,
        loopNeg |-> JsLt0(res.state.resources["mana"]),
        effectNeg |-> JsLt0(applyEffect(name, res.state.resources)["mana"]),
        loopRes |-> res.state.resources]

\* One iteration of for (let loop = 0; loop < listedAction.loops; loop++)
runOnce(name, at) == afterPredict(name, at, predict(name, at.state))

\* The runs of one entry, n still to go, as a function: at holds {state,
\* valid, total, raised, ticks}, ticks counting the mana decrements.
RECURSIVE loopsFrom(_, _, _)
loopsNext(name, at, r, n) ==
  IF r.raised
  THEN [at EXCEPT !.raised = TRUE]
  ELSE loopsFrom(name, [state |-> r.state, valid |-> r.valid, total |-> r.total,
                        raised |-> FALSE, ticks |-> at.ticks + r.decrements], n - 1)

loopsFrom(name, at, n) ==
  IF n = 0 THEN at ELSE loopsNext(name, at, runOnce(name, at), n)

\* div.innerHTML += template(state.resources, isValid), once the runs of
\* entry k are over; nothing is written when one of them raised
entryDone(list, k, acc, at) ==
  [state |-> at.state, total |-> at.total, raised |-> at.raised, ticks |-> at.ticks,
   rows |-> IF at.raised THEN acc.rows
            ELSE Append(acc.rows, [i |-> k,
                                   html |-> template(list, at.state.resources, at.valid)])]

\* The callback of actions.forEach on entry k: nothing without a prediction
entryFrom(list, k, acc) ==
  IF acc.raised \/ list[k].name \notin PredictionNames
  THEN acc
  ELSE entryDone(list, k, acc,
                 loopsFrom(list[k].name,
                           [state |-> [acc.state EXCEPT
                                         !.progress = ensureProgression(list[k].name, @)],
                            valid |-> entryValid, total |-> acc.total,
                            raised |-> FALSE, ticks |-> acc.ticks],
                           list[k].loops))

\* actions.forEach from entry k on
RECURSIVE forEachFrom(_, _, _)
forEachNext(list, k, acc) ==
  IF acc.raised THEN acc ELSE forEachFrom(list, k + 1, acc)

forEachFrom(list, k, acc) ==
  IF k > Len(list) THEN acc ELSE forEachNext(list, k, entryFrom(list, k, acc))

\* The whole pass of update over list as a function of the state it starts
\* from: {state, total, rows, raised, ticks}
updateFrom(list, st0) ==
  forEachFrom(list, 1, [state |-> st0, total |-> Num(0), rows |-> <<>>,
                        raised |-> FALSE, ticks |-> 0])

\* ------------------------------------------------ update as a state machine
\* actions: the list handed to update; pc: where the pass stands ("entry":
\* between entries, "run": inside the for loop of entry i, "done": the pass
\* returned, "raised": the pass ended with a TypeError); i, loop: the
\* forEach index (from 1) and the for loop counter; state, total, isValid:
\* the locals of update; rows: what was written to the list view, by entry;
\* _ticks: the cached tick count of each prediction; host (declared with the
\* host page): the skill levels of the page; obs: what the pass did,
\* for the properties (mana decrements, mana added inside ticks, the last
\* run, and per written row whether mana was seen negative).
VARIABLES actions, pc, i, loop, state, total, isValid, rows, _ticks, obs

vars == <<host, actions, pc, i, loop, state, total, isValid, rows, _ticks, obs>>

NoRun == [n |-> 0, entry |-> 0, name |-> "", t |-> 0, decrements |-> 0,
          stopped |-> FALSE, neg |-> FALSE, segs |-> 0, loops |-> 0, gain |-> 0,
          before |-> NoProgression, after |-> NoProgression,
          validBefore |-> TRUE, manaBefore |-> Undefined,
          loopNeg |-> FALSE, effectNeg |-> FALSE,
          walk |-> 0, over |-> FALSE, beyond |-> FALSE, kept |-> FALSE,
          added |-> 0, idle |-> FALSE,
          statsBefore |-> [s \in StatNames |-> 0],
          statsAfter |-> [s \in StatNames |-> 0],
          resBefore |-> seededResources, loopRes |-> seededResources,
          cached |-> 0]

\* Nothing observed yet.  again: update was called before on this Predictor;
\* params, prediction, missing: the parameters a Prediction is constructed
\* from, the Prediction, and the part a tick of it found missing.
NoObs == [ticks |-> 0, gain |-> 0, run |-> NoRun, anyNeg |-> FALSE,
          loopNeg |-> FALSE, effects |-> 0, perRow |-> <<>>, skipped |-> 0,
          again |-> FALSE,
          params |-> [affected |-> FALSE, effect |-> FALSE, loop |-> NoLoop],
          prediction |-> [affected |-> FALSE, effect |-> FALSE, loop |-> NoLoop],
          missing |-> "none"]

InitPass ==
  /\ actions \in ActionLists
  /\ pc = "entry"
  /\ i = 1
  /\ loop = 0
  /\ state = initialState(actions)
  /\ total = Num(0)
  /\ isValid = TRUE
  /\ rows = <<>>
  /\ _ticks = [n \in PredictionNames |-> 0]
  /\ obs = NoObs

\* update is called on the page of a character far into the game
Init == host = VeteranSkills /\ InitPass

\* update is called on the page of a character at the start of the game
InitNovice == host = NoviceSkills /\ InitPass

\* if (prediction) { let isValid = true; ...progression... : entry i has a
\* prediction
BeginEntry ==
  /\ pc = "entry"
  /\ i <= Len(actions)
  /\ actions[i].name \in PredictionNames
  /\ pc' = "run"
  /\ loop' = 0
  /\ isValid' = entryValid
  /\ state' = [state EXCEPT !.progress = ensureProgression(actions[i].name, @)]
  /\ obs' = [obs EXCEPT !.anyNeg = FALSE, !.loopNeg = FALSE, !.effects = 0]
  /\ UNCHANGED <<host, actions, i, total, rows, _ticks>>

\* The entry without a prediction given a row of its own all the same
SkipEntryWritesRow ==
  /\ pc = "entry"
  /\ i <= Len(actions)
  /\ actions[i].name \notin PredictionNames
  /\ i' = i + 1
  /\ rows' = Append(rows, [i |-> i, html |-> template(actions, state.resources, TRUE)])
  /\ obs' = [obs EXCEPT !.skipped = @ + 1,
                        !.perRow = Append(@, [anyNeg |-> FALSE, loopNeg |-> FALSE,
                                              effects |-> 0])]
  /\ UNCHANGED <<host, actions, pc, loop, state, total, isValid, _ticks>>

\* if (prediction) is falsy: forEach moves on to the next entry
SkipEntry ==
  /\ pc = "entry"
  /\ i <= Len(actions)
  /\ actions[i].name \notin PredictionNames
  /\ i' = i + 1
  /\ obs' = [obs EXCEPT !.skipped = @ + 1]
  /\ UNCHANGED <<host, actions, pc, loop, state, total, isValid, rows, _ticks>>

\* What the properties keep of the run r of entry i
runObserved(r, name, before) ==
  [n |-> obs.run.n + 1, entry |-> i, name |-> name, t |-> r.t,
   decrements |-> r.decrements, stopped |-> r.stopped, neg |-> r.m.neg,
   segs |-> r.m.segs, loops |-> r.m.loops, gain |-> r.m.gain,
   before |-> IF hasLoop(name) THEN before[name] ELSE NoProgression,
   after |-> IF hasLoop(name) THEN r.state.progress[name] ELSE NoProgression,
   validBefore |-> isValid, manaBefore |-> state.resources["mana"],
   loopNeg |-> r.loopNeg, effectNeg |-> r.effectNeg,
   walk |-> r.m.walk, over |-> r.m.over, beyond |-> r.m.beyond,
   kept |-> r.m.kept, added |-> r.m.added, idle |-> r.m.idle,
   statsBefore |-> state.stats, statsAfter |-> r.state.stats,
   resBefore |-> state.resources, loopRes |-> r.loopRes,
   cached |-> _ticks[name]]

\* One pass through the body of the for loop that does not raise
Run ==
  /\ pc = "run"
  /\ loop < actions[i].loops
  /\ \E name \in {actions[i].name} :
       \E r \in {afterPredict(name, [state |-> state, valid |-> isValid, total |-> total],
                               predictCached(name, state, _ticks[name]))} :
         /\ ~r.raised
         /\ _ticks' = [_ticks EXCEPT ![name] = r.t]
         /\ isValid' = r.valid
         /\ total' = r.total
         /\ state' = r.state
         /\ obs' = [obs EXCEPT
                      !.ticks = @ + r.decrements,
                      !.gain = @ + r.m.gain,
                      !.run = runObserved(r, name, state.progress),
                      !.anyNeg = @ \/ r.m.neg \/ r.effectNeg,
                      !.loopNeg = @ \/ r.loopNeg,
                      !.effects = @ + (IF hasEffect(name) THEN 1 ELSE 0)]
  /\ loop' = loop + 1
  /\ UNCHANGED <<host, actions, pc, i, rows>>

\* this.predict raises at the loop condition: updateTicks stored 0 in
\* _ticks, so ticks() calls updateTicks without its arguments
RunRaises ==
  /\ pc = "run"
  /\ loop < actions[i].loops
  /\ \E name \in {actions[i].name} :
       \E t \in {storedTicks(_ticks[name],
                              updateTicks(translateClassNames(name), state.stats))} :
         /\ ticksRaises(t)
         /\ _ticks' = [_ticks EXCEPT ![name] = t]
  /\ pc' = "raised"
  /\ UNCHANGED <<host, actions, i, loop, state, total, isValid, rows, obs>>

\* The end of an entry after which forEach visits the same entry again
EndEntryStays ==
  /\ pc = "run"
  /\ loop >= actions[i].loops
  /\ pc' = "entry"
  /\ UNCHANGED <<host, actions, i, loop, state, total, isValid, rows, _ticks, obs>>

\* The for loop is over: div.innerHTML += template(state.resources, isValid)
EndEntry ==
  /\ pc = "run"
  /\ loop >= actions[i].loops
  /\ rows' = Append(rows, [i |-> i, html |-> template(actions, state.resources, isValid)])
  /\ obs' = [obs EXCEPT !.perRow = Append(@, [anyNeg |-> obs.anyNeg,
                                             loopNeg |-> obs.loopNeg,
                                             effects |-> obs.effects])]
  /\ i' = i + 1
  /\ pc' = "entry"
  /\ UNCHANGED <<host, actions, loop, state, total, isValid, _ticks>>

\* forEach has visited every entry: the total is displayed, update returns
Finish ==
  /\ pc = "entry"
  /\ i > Len(actions)
  /\ pc' = "done"
  /\ UNCHANGED <<host, actions, i, loop, state, total, isValid, rows, _ticks, obs>>

Next ==
  \/ BeginEntry
  \/ SkipEntry
  \/ Run
  \/ RunRaises
  \/ EndEntry
  \/ Finish

Spec == Init /\ [][Next]_vars

SpecNovice == InitNovice /\ [][Next]_vars

\* Where the pass stands
position == <<pc, i, loop>>

\* A step of the pass, by what it does to the position: one is possible in
\* every state but the final ones (forEach visits the next entry or is
\* over, the for loop runs again or is over), and it moves pc, i or loop.
Advance ==
  /\ pc \notin {"done", "raised"}
  /\ pc' \in {"entry", "run", "done", "raised"}
  /\ i' \in {i, i + 1}
  /\ loop' \in {0, loop, loop + 1}

\* update runs to its end without waiting for anything: as long as a step
\* of the pass is possible, one is taken
SpecLive == Init /\ [][Next]_vars /\ WF_position(Advance)

\* The list a later call of update is handed: the last entry alone
lastAlone(list) == IF Len(list) = 0 THEN list ELSE <<list[Len(list)]>>

\* update is called again on the same Predictor once a pass is over (it
\* returned or it raised), here with the list cut down to its last entry:
\* the locals of update start afresh, the view is rebuilt by the page, and
\* each Prediction keeps the _ticks the earlier passes left in it.
UpdateAgain ==
  /\ pc \in {"done", "raised"}
  /\ \E list \in {lastAlone(actions)} :
       /\ actions' = list
       /\ state' = initialState(list)
  /\ pc' = "entry"
  /\ i' = 1
  /\ loop' = 0
  /\ total' = Num(0)
  /\ isValid' = TRUE
  /\ rows' = <<>>
  /\ obs' = [NoObs EXCEPT !.again = TRUE]
  /\ UNCHANGED <<host, _ticks>>

NextPasses ==
  \/ BeginEntry
  \/ SkipEntry
  \/ Run
  \/ RunRaises
  \/ EndEntry
  \/ Finish
  \/ UpdateAgain

\* Passes of update one after another on one Predictor
SpecPasses == Init /\ [][NextPasses]_vars

\* ---------------------------------- a Prediction from its parameters on
\* pc: "new" before the constructor ran, "built" after it, "ticked" after a
\* tick of a run of the Prediction returned, "tickRaised" after it raised.
InitCatalog ==
  /\ host = VeteranSkills
  /\ actions = <<>>
  /\ pc = "new"
  /\ i = 1
  /\ loop = 0
  /\ state = initialState(<<>>)
  /\ total = Num(0)
  /\ isValid = TRUE
  /\ rows = <<>>
  /\ _ticks = [n \in PredictionNames |-> 0]
  /\ \E params \in Parameters : obs = [NoObs EXCEPT !.params = params]

\* new Prediction(name, params)
Construct ==
  /\ pc = "new"
  /\ pc' = "built"
  /\ obs' = [obs EXCEPT !.prediction = construct(obs.params)]
  /\ UNCHANGED <<host, actions, i, loop, state, total, isValid, rows, _ticks>>

\* A tick of a run of the Prediction returns
TickBuilt ==
  /\ pc = "built"
  /\ \E crosses \in BOOLEAN : missingInTick(obs.prediction, crosses) = "none"
  /\ pc' = "ticked"
  /\ UNCHANGED <<host, actions, i, loop, state, total, isValid, rows, _ticks, obs>>

\* A tick of a run of the Prediction raises a TypeError
TickBuiltRaises ==
  /\ pc = "built"
  /\ \E crosses \in BOOLEAN :
       /\ missingInTick(obs.prediction, crosses) # "none"
       /\ obs' = [obs EXCEPT !.missing = missingInTick(obs.prediction, crosses)]
  /\ pc' = "tickRaised"
  /\ UNCHANGED <<host, actions, i, loop, state, total, isValid, rows, _ticks>>

NextCatalog ==
  \/ Construct
  \/ TickBuilt
  \/ TickBuiltRaises

SpecCatalog == InitCatalog /\ [][NextCatalog]_vars

\* ------------------------------------------------------------ properties
\* The row written last
lastRow(rs) == rs[Len(rs)]

C4_ZeroTickRunCompletes == pc # "raised"

C6_MaxStopsLaterRuns ==
  (/\ obs.run.n > 0
   /\ hasMax(obs.run.name)
   /\ obs.run.before.completed >=
        loopMax(obs.run.name) * translateClassNames(obs.run.name).segments)
  => (/\ obs.run.stopped
      /\ obs.run.decrements = 1
      /\ obs.run.after.completed = obs.run.before.completed)

\* C7: completed and total of a Progression never decrease and move in
\* lockstep: wherever the pass stands, completed is segments times the
\* number of loops total has counted since it was seeded.
C7_CompletedFollowsTotal ==
  /\ [](\A n \in LoopNames :
          state.progress[n].present =>
            /\ state.progress[n].total >= townsTotal(n)
            /\ state.progress[n].completed =
                 translateClassNames(n).segments
                   * (state.progress[n].total - townsTotal(n)))
  /\ [][\A n \in LoopNames :
          state.progress[n].present =>
            /\ state.progress'[n].present
            /\ state.progress'[n].completed >= state.progress[n].completed
            /\ state.progress'[n].total >= state.progress[n].total]_vars

\* C7 witness: a run completed loops of a Progression that earlier runs had
\* already advanced.
C7_Witness ==
  /\ obs.run.n > 0
  /\ hasLoop(obs.run.name)
  /\ obs.run.before.completed > 0
  /\ obs.run.after.completed > obs.run.before.completed

\* The entries of list that have a prediction, in order
withPrediction(list) == SelectSeq(list, LAMBDA e : e.name \in PredictionNames)

\* What the rows show, without the positions they were written at
htmls(rs) == [k \in 1..Len(rs) |-> rs[k].html]

\* The pass that ended in the current state left what the pass u left
sameOutcome(u) ==
  /\ u.raised = (pc = "raised")
  /\ u.state = state
  /\ u.total = total
  /\ u.ticks = obs.ticks
  /\ htmls(u.rows) = htmls(rows)

\* C8: an entry without a prediction is skipped.  The step over it changes
\* neither the state, nor the total, nor the flag, nor the rows, and the
\* pass ends as the pass over the list without such entries ends: same
\* state, same total, same tick count, same rows in the same order.
C8_SkippedEntryIsAbsent ==
  /\ [][(pc = "entry" /\ i <= Len(actions) /\ actions[i].name \notin PredictionNames)
        => (i' = i + 1 /\ UNCHANGED <<pc, state, total, isValid, rows, _ticks>>)]_vars
  /\ [](pc \in {"done", "raised"} =>
          sameOutcome(updateFrom(withPrediction(actions),
                                 initialState(withPrediction(actions)))))

\* C8 witness: the pass is over, it skipped an entry and after it processed
\* runs of a later entry.
C8_Witness ==
  /\ pc = "done"
  /\ \E a, b \in 1..Len(actions) :
       /\ a < b
       /\ actions[a].name \notin PredictionNames
       /\ actions[b].name \in PredictionNames
       /\ obs.run.entry = b

\* The mana added to the initial mana for comparison: enough for mana to
\* stay above zero throughout the pass
ManaBoost == 1000

\* st with b more mana
boosted(st, b) == [st EXCEPT !.resources["mana"] = JsAdd(@, Num(b))]

\* The pass that ended in the current state left what the pass u, started
\* with b more mana, left: mana aside, and the validity flags aside
sameButMana(u, b) ==
  /\ u.raised = (pc = "raised")
  /\ u.state.stats = state.stats
  /\ u.state.progress = state.progress
  /\ \A x \in ResourceNames \ {"mana"} : u.state.resources[x] = state.resources[x]
  /\ u.state.resources["mana"] = JsAdd(state.resources["mana"], Num(b))
  /\ u.total = total
  /\ u.ticks = obs.ticks
  /\ Len(u.rows) = Len(rows)
  /\ \A k \in 1..Len(rows) :
       /\ u.rows[k].i = rows[k].i
       /\ \A x \in DOMAIN rows[k].html.cells \ {"mana"} :
            u.rows[k].html.cells[x] = rows[k].html.cells[x]

\* C9: negative mana never alters the simulation.  The pass over the same
\* list started with more mana ends with the same stats, the same loop
\* progress, the same tick count and total, the same resources other than
\* mana, and mana higher by exactly the amount added.
C9_ManaDoesNotSteer ==
  pc \in {"done", "raised"} =>
    sameButMana(updateFrom(actions, boosted(initialState(actions), ManaBoost)),
                ManaBoost)

\* C9 witness: the pass is over, and its last run began with mana below
\* zero and still used up its tick count.
C9_Witness ==
  /\ pc = "done"
  /\ obs.run.n > 0
  /\ JsLt0(obs.run.manaBefore)
  /\ obs.run.t > 1
  /\ obs.run.decrements = obs.run.t

\* C10, as the specification states it: no resource field that an effect
\* has read or written holds NaN; a field nothing initialised counts as 0.
C10_ResourcesHoldNumbers ==
  \A x \in ResourceNames : state.resources[x].t # "nan"

\* C11: passes are independent.  A pass of update made after earlier
\* passes on the same Predictor, whatever _ticks those left in the
\* Predictions, ends as the pass over the same list on a Predictor fresh
\* from its constructor ends: same raise or return, same final state, same
\* total, same tick count, same rows with the same validity flags.
C11_LaterPassAsFirst ==
  (obs.again /\ pc \in {"done", "raised"}) =>
    sameOutcome(updateFrom(actions, initialState(actions)))

\* C11 witness: a later pass is over whose first run found in _ticks a
\* value an earlier pass had left there, other than the one the run needed.
C11_Witness ==
  /\ obs.again
  /\ pc = "done"
  /\ obs.run.n > 0
  /\ obs.run.cached # 0
  /\ obs.run.cached # obs.run.t

\* The loop definition of params has every required part, or params has
\* no loop
wellFormed(params) ==
  params.loop.given => {"cost", "tick", "effect"} \subseteq params.loop.parts

\* C12, as the specification states it: a loop definition that lacks cost,
\* tick or the effect object is rejected when the Prediction is constructed;
\* no Prediction is built from one, and no tick raises for want of a part.
C12_DefectRejectedAtConstruction ==
  /\ pc = "built" => wellFormed(obs.params)
  /\ pc # "tickRaised"

\* C13: every pass terminates.  Whatever the list, the pass comes to its
\* end, returning or raising: every run takes its finitely many ticks and
\* every walk inside a tick its finitely many steps, with max or without.
C13_PassTerminates == <>(pc \in {"done", "raised"})

\* C13 witness: a pass returned after runs of a loop action with a max and
\* of a loop action without one, the walks of the last run having taken
\* steps.
C13_Witness ==
  /\ pc = "done"
  /\ Len(actions) = 2
  /\ hasMax(actions[1].name)
  /\ actions[1].loops > 0
  /\ hasLoop(actions[2].name)
  /\ ~hasMax(actions[2].name)
  /\ obs.run.entry = 2
  /\ obs.run.walk > 0

\* ---------------------------------------------------------------- C14
\* The experience a whole run of the action a owes to the stat s: weight *
\* expMult * manaCost() * getTotalBonusXP(s) for a weighted stat, nothing
\* for the others
runExp(a, s) ==
  IF s \in DOMAIN a.stats
  THEN (a.stats[s] * a.expMult * a.manaCost * getTotalBonusXP(s) * ExpScale)
         \div WeightDen
  ELSE 0

\* C14: after a run of an action without loop whose tick count is positive,
\* every weighted stat of the table has grown, over the ticks of the run
\* together, by weight * expMult * manaCost() * bonus, and every stat the
\* action does not weigh is as it was.
C14_RunExpIsWholeCost ==
  (obs.run.n > 0 /\ ~hasLoop(obs.run.name) /\ obs.run.t > 0) =>
    \A s \in StatNames :
      obs.run.statsAfter[s] - obs.run.statsBefore[s]
        = runExp(translateClassNames(obs.run.name), s)

\* A run of Buy Mana over several ticks: Int has grown, Str is not weighed
C14_Witness ==
  /\ obs.run.n > 0
  /\ obs.run.name = "Buy Mana"
  /\ obs.run.t > 1
  /\ obs.run.decrements = obs.run.t
  /\ obs.run.statsAfter["Int"] > obs.run.statsBefore["Int"]
  /\ obs.run.statsBefore["Str"] > 0

\* ---------------------------------------------------------------- C15
\* Resources with gold g and mana m, everything else as update seeds it
goldAndMana(g, m) ==
  [seededResources EXCEPT !["gold"] = Num(g), !["mana"] = Num(m)]

\* C15: the top-level effect of Buy Mana turns {gold: 2, mana: 0} into
\* {gold: 0, mana: 100}; and after every run of Buy Mana the gold is 0, the
\* mana is what the tick loop left plus 50 times the gold it left, and every
\* other resource is what the tick loop left.
C15_BuyManaConvertsGold ==
  /\ effect("Buy Mana", goldAndMana(2, 0)) = goldAndMana(0, 100)
  /\ (obs.run.n > 0 /\ obs.run.name = "Buy Mana") =>
       /\ obs.run.loopRes["gold"].t = "num"
       /\ obs.run.loopRes["mana"].t = "num"
       /\ \A x \in ResourceNames :
            state.resources[x] =
              IF x = "gold" THEN Num(0)
              ELSE IF x = "mana"
                   THEN Num(obs.run.loopRes["mana"].n + 50 * obs.run.loopRes["gold"].n)
                   ELSE obs.run.loopRes[x]

\* A run of Buy Mana that found gold to convert
C15_Witness ==
  /\ obs.run.n > 0
  /\ obs.run.name = "Buy Mana"
  /\ obs.run.loopRes["gold"].t = "num"
  /\ obs.run.loopRes["gold"].n > 0
  /\ state.resources["gold"] = Num(0)
  /\ state.resources["mana"].n > obs.run.loopRes["mana"].n

\* ---------------------------------------------------------------- C16
\* C16 as stated: after every tick of a run of a loop action,
\* progression.progress is at least 0 and below the cost of the segment the
\* tick left in progress.
C16_ProgressBelowSegmentCost ==
  (obs.run.n > 0 /\ hasLoop(obs.run.name)) =>
    /\ obs.run.after.progress >= 0
    /\ ~obs.run.over

\* C16, amended: progression.progress is the progress made within the
\* current loop; after every tick it is at least 0 and below the summed cost
\* of the segments of that loop, and it is 0 after a tick that completed a
\* loop.
C16_ProgressWithinLoop ==
  (obs.run.n > 0 /\ hasLoop(obs.run.name)) =>
    /\ obs.run.after.progress >= 0
    /\ ~obs.run.beyond
    /\ ~obs.run.kept

\* A run that left progress at or above the cost of the segment in progress,
\* in a second segment, and a loop was completed along the way
C16_Witness ==
  /\ obs.run.n > 0
  /\ hasLoop(obs.run.name)
  /\ obs.run.over
  /\ obs.run.walk > 0
  /\ obs.run.after.completed > obs.run.before.completed
  /\ obs.run.after.progress > 0

\* ---------------------------------------------------------------- C17
\* C17: for every loop action with max, the segments completed so far plus
\* the index of the segment in progress never exceed max(action) times the
\* segments of a loop.
C17_SegmentsWithinMax ==
  \A n \in LoopNames :
    (hasMax(n) /\ state.progress[n].present) =>
      state.progress[n].completed
          + preWalk(n, state.progress[n], state.progress[n].progress, 0).segment
        <= loopMax(n) * translateClassNames(n).segments

\* ---------------------------------------------------------------- C18
\* Runs of the action name that the pass has finished: the repetitions of
\* the entries before the current one, and those done of the current one
RECURSIVE runsBefore(_, _)
runsBefore(name, k) ==
  IF k = 0 THEN 0
  ELSE runsBefore(name, k - 1)
         + (IF actions[k].name = name THEN actions[k].loops ELSE 0)

runsDone(name) ==
  runsBefore(name, i - 1)
    + (IF pc = "run" /\ actions[i].name = name THEN loop ELSE 0)

\* Lists in which Wild Mana is the only action whose effect or loop adds mana
onlyWildManaAdds ==
  \A k \in 1..Len(actions) : actions[k].name \in {"Nap", "Buy Glasses", "Wild Mana"}

created(n) == ~state.progress[n].present /\ state'.progress[n].present

tickExp(a, s, t) ==
  IF s \in DOMAIN a.stats
  THEN (a.stats[s] * a.expMult * a.manaCost * getTotalBonusXP(s) * ExpScale)
         \div (WeightDen * t)
  ELSE 0

\* The levels of the stats are the same in the tables s1 and s2, and the
\* same for all stats
levelThroughout(s1, s2) ==
  \A x, y \in StatNames :
    getLevelFromExp(s1[x]) = getLevelFromExp(s2[y])

\* C20: the tick count of a run is the one updateTicks makes of the stats at
\* the start of the run, and _ticks keeps it; the run makes at most that
\* many decrements, all of them unless a tick stops it; every tick of the
\* run adds manaCost / that count as experience share, although the stats
\* grow during the run; and in a run through which the levels and the
\* loop's progress function stay as they were, every tick adds the loop
\* progress of manaCost / that count.
C20_TicksFixedForRun ==
  obs.run.n > 0 =>
    LET name == obs.run.name
        a == translateClassNames(name)
        t == obs.run.t
    IN /\ t = updateTicks(a, obs.run.statsBefore)
       /\ _ticks[name] = t
       /\ obs.run.decrements <= t
       /\ ~obs.run.stopped => obs.run.decrements = t
       /\ \A s \in StatNames :
            obs.run.statsAfter[s] - obs.run.statsBefore[s]
              = obs.run.decrements * tickExp(a, s, t)
       /\ ( /\ hasLoop(name)
            /\ levelThroughout(obs.run.statsBefore, obs.run.statsAfter)
            /\ loopTick(name, obs.run.before, obs.run.statsBefore, obs.run.resBefore, 0)
                 = loopTick(name, obs.run.after, obs.run.statsAfter, obs.run.loopRes, 0) ) =>
            obs.run.added
              = obs.run.decrements
                  * ((loopTick(name, obs.run.before, obs.run.statsBefore,
                               obs.run.resBefore, 0) * a.manaCost) \div t)

\* A later run of an action whose earlier run left another count in _ticks,
\* the stats having grown in between and during the run
C20_Witness ==
  /\ obs.run.n > 1
  /\ obs.run.cached # 0
  /\ obs.run.cached # obs.run.t
  /\ obs.run.t > 1
  /\ obs.run.decrements = obs.run.t
  /\ updateTicks(translateClassNames(obs.run.name), obs.run.statsAfter) # obs.run.t

\* ---------------------------------------------------------------- C21
\* C21: a run of a loop action that starts from progress 0 and completed 0,
\* whose ticks all add progress, and whose first segment costs more than
\* the run adds: no tick stops it and it performs all its ticks, no segment
\* is crossed and no loop or segment effect is applied, completed and total
\* stay what they were (0 for a total of 0), and progression.progress is the
\* sum of what the ticks added.
C21_SlowLoopRunsAllTicks ==
  ( /\ obs.run.n > 0
    /\ hasLoop(obs.run.name)
    /\ obs.run.before.progress = 0
    /\ obs.run.before.completed = 0
    /\ ~obs.run.idle
    /\ loopCost(obs.run.name, obs.run.before, 0) > obs.run.added ) =>
    /\ ~obs.run.stopped
    /\ obs.run.decrements = obs.run.t
    /\ obs.run.walk = 0
    /\ obs.run.segs = 0
    /\ obs.run.loops = 0
    /\ obs.run.loopRes =
         [obs.run.resBefore EXCEPT !["mana"] = JsSub(@, Num(obs.run.decrements))]
    /\ obs.run.after.completed = 0
    /\ obs.run.after.total = obs.run.before.total
    /\ obs.run.after.progress = obs.run.added

\* The first run of Adventure Guild by a novice, from {progress: 0,
\* completed: 0, total: 0}: several ticks, each adding a little progress
C21_Witness ==
  /\ obs.run.n > 0
  /\ obs.run.name = "Adventure Guild"
  /\ obs.run.before = [present |-> TRUE, progress |-> 0, completed |-> 0, total |-> 0]
  /\ ~obs.run.idle
  /\ obs.run.t > 1
  /\ obs.run.added > 0
  /\ loopCost(obs.run.name, obs.run.before, 0) > obs.run.added
  /\ obs.run.after.total = 0

\* ---------------------------------------------------------------- C22
\* Segments the Progression p of the loop action n accounts for: those of
\* the completed loops and those of the current loop that p.progress covers
segmentsOf(n, p) == p.completed + preWalk(n, p, p.progress, 0).segment

\* C22: the segment effect of a loop action has been applied as often as
\* its Progression accounts for segments.  Tournament's segment effect
\* counts its applications in resources.tourney.
C22_SegmentEffectsMatchProgression ==
  state.progress["Tournament"].present =>
    ToNumber(OrZero(state.resources["tourney"])).n
      = segmentsOf("Tournament", state.progress["Tournament"])

\* ---------------------------------------------------------------- C23
\* C23: the isValid flag of an entry, in the for loop and in the row written
\* for it, is true exactly when after the tick loop of none of its runs so
\* far, before the effect, mana was below 0; so the row of an entry with 0
\* repetitions is valid, whatever mana the row shows.
C23_ValidIffManaHeldAfterLoops ==
  /\ pc = "run" => (isValid <=> ~obs.loopNeg)
  /\ \A k \in 1..Len(rows) :
       /\ rows[k].html.valid <=> ~obs.perRow[k].loopNeg
       /\ actions[rows[k].i].loops = 0 => rows[k].html.valid

\* A pass wrote an invalid row that shows mana at or above 0 (the effect
\* made up for what the tick loop overspent), then a valid row for an entry
\* with 0 repetitions
C23_Witness ==
  /\ pc = "done"
  /\ Len(rows) = 2
  /\ ~rows[1].html.valid
  /\ "mana" \in DOMAIN rows[1].html.cells
  /\ JsGe0(rows[1].html.cells["mana"])
  /\ actions[rows[2].i].loops = 0
  /\ rows[2].html.valid

\* ---------------------------------------------------------------- C24
\* C24: every stat's experience is 0 when the pass starts and never goes
\* down.  The stat table changes only in a run, and then every stat grows
\* by the ticks' experience and nothing else: the run's decrements times
\* one tick's share, which is never negative.
C24_StatsOnlyGrow ==
  /\ \A s \in StatNames : state.stats[s] = 0
  /\ [][/\ \A s \in StatNames : state'.stats[s] >= state.stats[s]
        /\ state'.stats # state.stats =>
             /\ pc = "run"
             /\ loop' = loop + 1
             /\ obs'.run.n = obs.run.n + 1
             /\ \A s \in StatNames :
                  LET share == tickExp(translateClassNames(obs'.run.name), s, obs'.run.t)
                  IN /\ share >= 0
                     /\ state'.stats[s] - state.stats[s]
                          = obs'.run.decrements * share]_vars

\* After several runs one stat has grown more than another that has grown too
C24_Witness ==
  /\ obs.run.n > 1
  /\ state.stats["Int"] > 0
  /\ state.stats["Str"] > state.stats["Int"]
  /\ obs.run.statsAfter = state.stats
  /\ obs.run.statsAfter # obs.run.statsBefore

====
